---- MODULE Spec2Model ----
(***************************************************************************)
(* A model of get_links.py: the roster reader, the two fetchers of the Ed   *)
(* API, the selection of the latest submission and the reporting loop of    *)
(* main().  Text is modelled as sequences of one-character strings, so that *)
(* strip(), lower(), the tab split of the csv reader and the construction   *)
(* of the search query are computed character by character.                 *)
(***************************************************************************)
EXTENDS Integers, Sequences, FiniteSets, TLC

VARIABLES
    file,         \* the roster file STUDENTS_FILE: [exists, lines]
    pc,           \* position of main()
    students,     \* main.students
    users,        \* main.users
    user_dict,    \* main.user_dict (a function email -> id)
    i,            \* index of the roster entry the for loop is at
    student_id,   \* main.student_id
    submissions,  \* main.submissions
    stdout,       \* lines written to standard output
    stderr,       \* lines written to standard error
    calls         \* the calls made so far: fetch_users, fetch_submissions, sleep

vars == <<file, pc, students, users, user_dict, i, student_id, submissions,
          stdout, stderr, calls>>

----------------------------------------------------------------------------
(* Bounds of the model *)

MaxLines == 2
MaxUsers == 2
MaxSubs == 2

----------------------------------------------------------------------------
(* Text *)

TAB == "\t"

UPPER == <<"A","B","C","D","E","F","G","H","I","J","K","L","M",
           "N","O","P","Q","R","S","T","U","V","W","X","Y","Z">>
LOWER == <<"a","b","c","d","e","f","g","h","i","j","k","l","m",
           "n","o","p","q","r","s","t","u","v","w","x","y","z">>

\* str.lower(), one character
LowerChar(c) ==
    IF \E k \in 1..Len(UPPER) : UPPER[k] = c
    THEN LOWER[CHOOSE k \in 1..Len(UPPER) : UPPER[k] = c]
    ELSE c

\* str.lower()
lower(s) == [k \in 1..Len(s) |-> LowerChar(s[k])]

IsSpace(c) == c \in {" ", TAB}

RECURSIVE lstrip(_)
lstrip(s) ==
    IF s = <<>> THEN s
    ELSE IF IsSpace(Head(s)) THEN lstrip(Tail(s)) ELSE s

RECURSIVE rstrip(_)
rstrip(s) ==
    IF s = <<>> THEN s
    ELSE IF IsSpace(s[Len(s)]) THEN rstrip(SubSeq(s, 1, Len(s) - 1)) ELSE s

\* str.strip()
strip(s) == rstrip(lstrip(s))

\* the fields of one line of the file, split at the delimiter
RECURSIVE SplitFrom(_, _, _)
SplitFrom(line, k, field) ==
    IF k > Len(line) THEN <<field>>
    ELSE IF line[k] = TAB THEN <<field>> \o SplitFrom(line, k + 1, <<>>)
    ELSE SplitFrom(line, k + 1, Append(field, line[k]))

\* csv.reader on one line: an empty line gives the empty row
csv_row(line) == IF line = <<>> THEN <<>> ELSE SplitFrom(line, 1, <<>>)

\* the fields of a line written with tabs between them
RECURSIVE JoinTab(_)
JoinTab(fields) ==
    IF fields = <<>> THEN <<>>
    ELSE IF Len(fields) = 1 THEN fields[1]
    ELSE fields[1] \o <<TAB>> \o JoinTab(Tail(fields))

\* s contains sub as a contiguous substring
Contains(s, sub) ==
    \E k \in 0..(Len(s) - Len(sub)) : SubSeq(s, k + 1, k + Len(sub)) = sub

\* percent-encoding of a text for a URL query (a space becomes %20)
RECURSIVE UrlEncode(_)
UrlEncode(s) ==
    IF s = <<>> THEN <<>>
    ELSE (IF Head(s) = " " THEN <<"%", "2", "0">> ELSE <<Head(s)>>)
         \o UrlEncode(Tail(s))

----------------------------------------------------------------------------
(* Output lines *)

Line(kind, u, s, q) == [kind |-> kind, u |-> u, s |-> s, q |-> q]

\* SUBMISSION_URL_TEMPLATE.format(student_id=u, submission_id=s)
SUBMISSION_URL(u, s) == Line("submission_url", u, s, <<>>)

\* MISSING_EMAIL_URL_TEMPLATE.format(query=q)
MISSING_EMAIL_URL(q) == Line("missing_email_url", 0, 0, q)

NoSubmissionsNotice == Line("no_submissions", 0, 0, <<>>)
LateNotice == Line("late", 0, 0, <<>>)
FileNotFoundError == Line("file_not_found", 0, 0, <<>>)
NoStudentData == Line("no_student_data", 0, 0, <<>>)
NoUsersFetched == Line("no_users", 0, 0, <<>>)
FailedUsers(status) == Line("failed_users", status, 0, <<>>)
FailedSubmissions(u, status) == Line("failed_submissions", u, status, <<>>)

Call(op, idx, arg, status, n) ==
    [op |-> op, i |-> idx, arg |-> arg, status |-> status, n |-> n]

----------------------------------------------------------------------------
(* read_student_data *)

\* faulty variant: the email is trimmed but not lower-cased
Student_NoLower(row) ==
    [first_name |-> strip(row[1]),
     last_name  |-> strip(row[2]),
     email      |-> strip(row[4])]

Student(row) ==
    [first_name |-> strip(row[1]),
     last_name  |-> strip(row[2]),
     email      |-> lower(strip(row[4]))]

\* the rows csv.DictReader yields: csv.reader's rows without the empty ones
DictReaderRows(lines) ==
    SelectSeq([k \in 1..Len(lines) |-> csv_row(lines[k])], LAMBDA r : r # <<>>)

\* A row of fewer than four fields has row["email"] = None, and None.strip()
\* raises AttributeError, which read_student_data does not catch.
read_student_data(f) ==
    IF ~f.exists
    THEN [students |-> <<>>, out |-> <<FileNotFoundError>>, raised |-> FALSE]
    ELSE LET rows == DictReaderRows(f.lines)
         IN IF \E k \in 1..Len(rows) : Len(rows[k]) < 4
            THEN [students |-> <<>>, out |-> <<>>, raised |-> TRUE]
            ELSE [students |-> [k \in 1..Len(rows) |-> Student(rows[k])],
                  out |-> <<>>, raised |-> FALSE]

----------------------------------------------------------------------------
(* fetch_users, fetch_submissions *)

HTTP_OK == 200

\* what the function returns for a response
fetch_result(response) ==
    IF response.status_code = HTTP_OK THEN response.body ELSE <<>>

\* faulty variant: the keys of the mapping are lower-cased
UserDict_LowerKeys(us) ==
    [e \in {lower(us[k].email) : k \in 1..Len(us)} |->
        us[CHOOSE k \in 1..Len(us) :
              /\ lower(us[k].email) = e
              /\ \A j \in (k + 1)..Len(us) : lower(us[j].email) # e].id]

\* {user["email"]: user["id"] for user in users}: a later entry replaces an
\* earlier one of the same email
UserDict(us) ==
    [e \in {us[k].email : k \in 1..Len(us)} |->
        us[CHOOSE k \in 1..Len(us) :
              /\ us[k].email = e
              /\ \A j \in (k + 1)..Len(us) : us[j].email # e].id]

\* faulty variant: "email in users", a text looked up in the list of user dicts
InUserDict_InList(email, d) == FALSE

\* email in user_dict
InUserDict(email, d) == email \in DOMAIN d

----------------------------------------------------------------------------
(* parse_iso_datetime, find_accepted_submission *)

\* A created_at text is [wall, tz]: the date and time of day it spells (in
\* hours) and its zone designator, "Z", "" (none) or "+02:00".
\* iso_string.rstrip("Z")
rstripZ(iso) == IF iso.tz = "Z" THEN [iso EXCEPT !.tz = ""] ELSE iso

\* the UTC offset a designator spells, in hours
OffsetOf(tz) == IF tz = "+02:00" THEN 2 ELSE 0

\* datetime.fromisoformat: naive (tzinfo {}) without a designator, else aware
fromisoformat(iso) ==
    [wall |-> iso.wall,
     tzinfo |-> IF iso.tz = "" THEN {} ELSE {OffsetOf(iso.tz)}]

\* datetime.replace(tzinfo=timezone.utc): the wall time is kept as it is
replace_tzinfo_utc(dt) == [dt EXCEPT !.tzinfo = {0}]

parse_iso_datetime(iso_string) ==
    replace_tzinfo_utc(fromisoformat(rstripZ(iso_string)))

\* the order of aware datetimes: by wall time minus UTC offset
UtcValue(dt) == dt.wall - (CHOOSE o \in dt.tzinfo : TRUE)

\* faulty variant: only submissions created up to a cutoff count; None if there is none
find_accepted_submission_Cutoff(subs) ==
    LET valid == SelectSeq(subs, LAMBDA s : s.created_at.wall <= 2)
        key(k) == UtcValue(parse_iso_datetime(valid[k].created_at))
    IN IF valid = <<>> THEN <<>>
       ELSE valid[CHOOSE k \in 1..Len(valid) :
                     /\ \A j \in 1..Len(valid) : key(j) <= key(k)
                     /\ \A j \in 1..(k - 1) : key(j) < key(k)]

\* max(submissions, key=...): the first of the maximal elements
find_accepted_submission(subs) ==
    LET key(k) == UtcValue(parse_iso_datetime(subs[k].created_at))
    IN subs[CHOOSE k \in 1..Len(subs) :
               /\ \A j \in 1..Len(subs) : key(j) <= key(k)
               /\ \A j \in 1..(k - 1) : key(j) < key(k)]

\* truth value of a dict (or None): it has a key
Truthy(d) == DOMAIN d # {}

----------------------------------------------------------------------------
(* The environment: roster files and the responses of the Ed API *)

SeqsUpTo(S, n) == UNION {[1..m -> S] : m \in 0..n}

\* Lines of a roster file, as fields joined by tabs: two well-formed lines
\* (an upper-case email; a first name of two words and an email between
\* spaces), a line of three columns, and an empty line.  No field holds a
\* quote character, which csv.reader would treat as the start of a quoted field.
WellFormedRows ==
    { << <<"Z">>, <<"D">>, <<"-">>, <<"A">> >>,
      << <<"K", " ", "K">>, <<"O">>, <<"-">>, <<" ", "B", " ">> >> }

RosterLines ==
    {JoinTab(row) : row \in WellFormedRows}
    \cup {JoinTab(<< <<"Z">>, <<"D">>, <<"-">> >>), <<>>}

RosterFiles ==
    {[exists |-> FALSE, lines |-> <<>>]}
    \cup {[exists |-> TRUE, lines |-> l] : l \in SeqsUpTo(RosterLines, MaxLines)}

\* Entries of the directory; emails are as the platform returns them.
RemoteUsers ==
    { [email |-> <<"a">>, id |-> 7], [email |-> <<"A">>, id |-> 8],
      [email |-> <<"b">>, id |-> 9] }

UsersResponses ==
    {[status_code |-> 200, body |-> us] : us \in SeqsUpTo(RemoteUsers, MaxUsers)}
    \cup {[status_code |-> 500, body |-> <<>>]}

Timestamps ==
    { [wall |-> 1, tz |-> "Z"], [wall |-> 2, tz |-> "Z"],
      [wall |-> 3, tz |-> "+02:00"] }

\* Submission lists: the k-th submission of a list has id 90 + k, and the
\* created_at texts of one list are pairwise distinct.
SubmissionLists ==
    {[k \in 1..Len(ts) |-> [id |-> 90 + k, created_at |-> ts[k]]] :
        ts \in {s \in SeqsUpTo(Timestamps, MaxSubs) :
                  \A j, k \in 1..Len(s) : j # k => s[j] # s[k]}}

SubmissionsResponses ==
    {[status_code |-> 200, body |-> subs] : subs \in SubmissionLists}
    \cup {[status_code |-> 500, body |-> <<>>]}

----------------------------------------------------------------------------
(* main *)

Init ==
    /\ file \in RosterFiles
    /\ pc = "start"
    /\ students = <<>>
    /\ users = <<>>
    /\ user_dict = <<>>
    /\ i = 1
    /\ student_id = 0
    /\ submissions = <<>>
    /\ stdout = <<>>
    /\ stderr = <<>>
    /\ calls = <<>>

\* students = read_student_data(STUDENTS_FILE)
ReadRoster ==
    /\ pc = "start"
    /\ LET r == read_student_data(file)
       IN /\ students' = r.students
          /\ stdout' = stdout \o r.out
          /\ pc' = IF r.raised THEN "raised" ELSE "read"
    /\ UNCHANGED <<file, users, user_dict, i, student_id, submissions, stderr, calls>>

\* if not students: print(...); return
AbortNoStudents ==
    /\ pc = "read"
    /\ students = <<>>
    /\ stdout' = Append(stdout, NoStudentData)
    /\ pc' = "aborted"
    /\ UNCHANGED <<file, students, users, user_dict, i, student_id, submissions,
                   stderr, calls>>

\* users = fetch_users()
FetchUsers ==
    /\ pc = "read"
    /\ students # <<>>
    /\ \E response \in UsersResponses :
          /\ users' = fetch_result(response)
          /\ stderr' = IF response.status_code = HTTP_OK THEN stderr
                       ELSE Append(stderr, FailedUsers(response.status_code))
          /\ calls' = Append(calls, Call("fetch_users", 0, 0, response.status_code,
                                         Len(fetch_result(response))))
    /\ pc' = "fetched"
    /\ UNCHANGED <<file, students, user_dict, i, student_id, submissions, stdout>>

\* faulty variant: the return after the message is missing
AbortNoUsers_NoReturn ==
    /\ pc = "fetched"
    /\ users = <<>>
    /\ stdout' = Append(stdout, NoUsersFetched)
    /\ user_dict' = <<>>
    /\ i' = 1
    /\ pc' = "loop"
    /\ UNCHANGED <<file, students, users, student_id, submissions, stderr, calls>>

\* if not users: print(...); return
AbortNoUsers ==
    /\ pc = "fetched"
    /\ users = <<>>
    /\ stdout' = Append(stdout, NoUsersFetched)
    /\ pc' = "aborted"
    /\ UNCHANGED <<file, students, users, user_dict, i, student_id, submissions,
                   stderr, calls>>

\* user_dict = {...}
BuildUserDict ==
    /\ pc = "fetched"
    /\ users # <<>>
    /\ user_dict' = UserDict(users)
    /\ i' = 1
    /\ pc' = "loop"
    /\ UNCHANGED <<file, students, users, student_id, submissions, stdout, stderr,
                   calls>>

\* query = f"{first_name}%20{last_name}"
Query(first_name, last_name) == first_name \o <<"%", "2", "0">> \o last_name

\* the else branch of the loop body: the email is not in user_dict
ReportMissing ==
    /\ pc = "loop"
    /\ i <= Len(students)
    /\ ~InUserDict(students[i].email, user_dict)
    /\ stdout' = Append(stdout,
           MISSING_EMAIL_URL(Query(students[i].first_name, students[i].last_name)))
    /\ i' = i + 1
    /\ UNCHANGED <<file, pc, students, users, user_dict, student_id, submissions,
                   stderr, calls>>

\* faulty variant: the failure message of fetch_submissions goes to standard output
FetchSubmissions_PrintStdout ==
    /\ pc = "loop"
    /\ i <= Len(students)
    /\ InUserDict(students[i].email, user_dict)
    /\ LET id == user_dict[students[i].email]
       IN \E response \in SubmissionsResponses :
             /\ student_id' = id
             /\ submissions' = fetch_result(response)
             /\ stdout' = IF response.status_code = HTTP_OK THEN stdout
                          ELSE Append(stdout,
                                      FailedSubmissions(id, response.status_code))
             /\ calls' = Append(calls, Call("fetch_submissions", i, id,
                                            response.status_code,
                                            Len(fetch_result(response))))
    /\ pc' = "sleep"
    /\ UNCHANGED <<file, students, users, user_dict, i, stderr>>

\* student_id = user_dict[email]; submissions = fetch_submissions(student_id)
FetchSubmissions ==
    /\ pc = "loop"
    /\ i <= Len(students)
    /\ InUserDict(students[i].email, user_dict)
    /\ LET id == user_dict[students[i].email]
       IN \E response \in SubmissionsResponses :
             /\ student_id' = id
             /\ submissions' = fetch_result(response)
             /\ stderr' = IF response.status_code = HTTP_OK THEN stderr
                          ELSE Append(stderr,
                                      FailedSubmissions(id, response.status_code))
             /\ calls' = Append(calls, Call("fetch_submissions", i, id,
                                            response.status_code,
                                            Len(fetch_result(response))))
    /\ pc' = "sleep"
    /\ UNCHANGED <<file, students, users, user_dict, i, stdout>>

\* faulty variant: no delay after the fetch
Sleep_Skipped ==
    /\ pc = "sleep"
    /\ pc' = "report"
    /\ UNCHANGED <<file, students, users, user_dict, i, student_id, submissions,
                   stdout, stderr, calls>>

\* time.sleep(0.2)
Sleep ==
    /\ pc = "sleep"
    /\ calls' = Append(calls, Call("sleep", i, 0, 0, 0))
    /\ pc' = "report"
    /\ UNCHANGED <<file, students, users, user_dict, i, student_id, submissions,
                   stdout, stderr>>

\* faulty variant: an empty list falls through to the "late" message
ReportLine_NoEmptyCheck(id, subs) ==
    IF subs = <<>> THEN LateNotice
    ELSE SUBMISSION_URL(id, find_accepted_submission(subs).id)

\* the line printed for a matched student, from "if not submissions" on
ReportLine(id, subs) ==
    IF subs = <<>> THEN NoSubmissionsNotice
    ELSE LET latest_submission == find_accepted_submission(subs)
         IN IF Truthy(latest_submission)
            THEN SUBMISSION_URL(id, latest_submission.id)
            ELSE LateNotice

Report ==
    /\ pc = "report"
    /\ stdout' = Append(stdout, ReportLine(student_id, submissions))
    /\ i' = i + 1
    /\ pc' = "loop"
    /\ UNCHANGED <<file, students, users, user_dict, student_id, submissions,
                   stderr, calls>>

\* the for loop is exhausted and main returns
Finish ==
    /\ pc = "loop"
    /\ i > Len(students)
    /\ pc' = "done"
    /\ UNCHANGED <<file, students, users, user_dict, i, student_id, submissions,
                   stdout, stderr, calls>>

Next ==
    \/ ReadRoster
    \/ AbortNoStudents
    \/ FetchUsers
    \/ AbortNoUsers
    \/ BuildUserDict
    \/ ReportMissing
    \/ FetchSubmissions
    \/ Sleep
    \/ Report
    \/ Finish

Spec == Init /\ [][Next]_vars

----------------------------------------------------------------------------
(* Properties *)

InLoop == pc \in {"loop", "sleep", "report", "done"}

PerStudentKinds == {"submission_url", "missing_email_url", "no_submissions"}

\* the fetch_submissions calls made so far, in order
FetchCalls == SelectSeq(calls, LAMBDA c : c.op = "fetch_submissions")

\* roster entry k has the email of a directory entry, character for character
InDirectory(k) == \E j \in 1..Len(users) : users[j].email = students[k].email

\* C1: in a run that is not aborted, standard output holds exactly one line
\* per roster entry, each a submission URL, a missing-email URL or the "no
\* submissions" notice, and the k-th line is the one of the k-th entry: a
\* search link naming that entry iff its email is not in the directory, else a
\* notice or a submission URL with that entry's directory id.
C1_OneLinePerEntry ==
    /\ pc = "loop" => Len(stdout) = i - 1
    /\ pc = "done" =>
          /\ Len(stdout) = Len(students)
          /\ \A k \in 1..Len(students) :
                /\ stdout[k].kind \in PerStudentKinds
                /\ stdout[k].kind = "missing_email_url" <=> ~InDirectory(k)
                /\ stdout[k].kind = "missing_email_url" =>
                      /\ Contains(stdout[k].q, students[k].first_name)
                      /\ Contains(stdout[k].q, students[k].last_name)
                /\ stdout[k].kind = "submission_url" =>
                      \E j \in 1..Len(users) :
                         /\ users[j].email = students[k].email
                         /\ users[j].id = stdout[k].u

C1_Witness ==
    /\ pc = "done"
    /\ Len(students) = 2
    /\ stdout[1].kind = "no_submissions"
    /\ stdout[2].kind = "missing_email_url"
    /\ stderr # <<>>

\* the instant a created_at text denotes: its wall time minus its UTC offset
\* ("Z" is the offset zero)
C2_Instant(iso) == iso.wall - OffsetOf(iso.tz)

\* C2: when the submissions of a matched student are non-empty and have
\* pairwise distinct created_at values, the submission URL printed for the
\* student carries the id of the submission whose created_at is the latest
\* instant, and the student's directory id.
C2_LatestSelected ==
    ( /\ pc = "loop"
      /\ stdout # <<>>
      /\ stdout[Len(stdout)].kind = "submission_url"
      /\ \A j, k \in 1..Len(submissions) :
            j # k => /\ submissions[j].created_at # submissions[k].created_at
                     /\ C2_Instant(submissions[j].created_at)
                           # C2_Instant(submissions[k].created_at) )
    => \E k \in 1..Len(submissions) :
          /\ stdout[Len(stdout)].s = submissions[k].id
          /\ stdout[Len(stdout)].u = user_dict[students[i - 1].email]
          /\ \A j \in 1..Len(submissions) :
                C2_Instant(submissions[j].created_at)
                   <= C2_Instant(submissions[k].created_at)

\* C3: the line of a roster entry whose email is not in the mapping is a
\* search link whose query contains the URL-encoded first name and the
\* URL-encoded last name.
C3_QueryEncoded ==
    InLoop =>
       \A k \in 1..Len(stdout) :
          ~InUserDict(students[k].email, user_dict) =>
             /\ stdout[k].kind = "missing_email_url"
             /\ Contains(stdout[k].q, UrlEncode(students[k].first_name))
             /\ Contains(stdout[k].q, UrlEncode(students[k].last_name))

\* C4: if the mapping has an entry for every roster email, every output line
\* is a submission link or a "no submissions" notice, none a search link.
C4_AllMatchedNoMissing ==
    ( /\ InLoop
      /\ \A k \in 1..Len(students) : students[k].email \in DOMAIN user_dict )
    => \A k \in 1..Len(stdout) :
          stdout[k].kind \in {"submission_url", "no_submissions"}

C4_Witness ==
    /\ pc = "done"
    /\ Len(students) = 2
    /\ students[1].email # students[2].email
    /\ \A k \in 1..Len(students) : students[k].email \in DOMAIN user_dict
    /\ stdout[1].kind = "submission_url"
    /\ stdout[2].kind = "no_submissions"

\* C5 as stated: an aborted run (missing roster file, or no users from the
\* directory) has written nothing.
C5_NoOutput == pc = "aborted" => stdout = <<>>

\* C5 amended: with a missing roster file or no users from the directory the
\* run ends early, before the loop: no per-student line is written and
\* fetch_submissions is not called; standard output holds only the messages
\* of the abort.
C5_AbortOnlyDiagnostics ==
    /\ (~file.exists /\ pc # "start") =>
          /\ pc \in {"read", "aborted"}
          /\ students = <<>>
    /\ InLoop => (file.exists /\ students # <<>> /\ users # <<>>)
    /\ pc = "aborted" =>
          /\ FetchCalls = <<>>
          /\ stdout = IF ~file.exists THEN <<FileNotFoundError, NoStudentData>>
                      ELSE IF students = <<>> THEN <<NoStudentData>>
                      ELSE <<NoUsersFetched>>
          /\ (students # <<>>) => (users = <<>> /\ Len(calls) = 1)

C5_Witness ==
    /\ pc = "aborted"
    /\ file.exists
    /\ students # <<>>
    /\ stderr # <<>>

\* C6: a matched student whose fetch gave an empty result, by a failed
\* response or by an empty list, gets the "no submissions" notice; the run
\* does not fail in the loop, and all roster entries have their line when the
\* run is done.
C6_EmptyIsNotFatal ==
    /\ \A c \in 1..Len(FetchCalls) :
          (FetchCalls[c].n = 0 /\ Len(stdout) >= FetchCalls[c].i) =>
             stdout[FetchCalls[c].i] = NoSubmissionsNotice
    /\ pc = "raised" => calls = <<>>
    /\ pc = "done" => Len(stdout) = Len(students)
    /\ (pc = "report" /\ submissions = <<>>) => Len(stdout) = i - 1

C6_Witness ==
    /\ pc = "done"
    /\ Len(FetchCalls) = 2
    /\ FetchCalls[1].status = 500
    /\ FetchCalls[2].status = 200
    /\ FetchCalls[2].n = 0
    /\ Len(stdout) = 2

\* the part of a text that is left when the white space at its two ends is
\* removed and its letters are lower-cased, stated by positions
C7_TrimmedLower(e, raw) ==
    \E a \in 0..Len(raw) :
       /\ a + Len(e) <= Len(raw)
       /\ \A j \in 1..a : IsSpace(raw[j])
       /\ \A j \in (a + Len(e) + 1)..Len(raw) : IsSpace(raw[j])
       /\ e # <<>> => (~IsSpace(raw[a + 1]) /\ ~IsSpace(raw[a + Len(e)]))
       /\ \A j \in 1..Len(e) :
             /\ e[j] = LowerChar(raw[a + j])
             /\ \A u \in 1..Len(UPPER) : e[j] # UPPER[u]

\* C7: for an existing file of N well-formed lines the reader returns N
\* records in file order, the email of each being the email column of its
\* line, trimmed and lower-cased (stated of the state in which the reader has
\* returned or raised).
C7_ReaderRecords ==
    ( /\ pc \in {"read", "raised"}
      /\ file.exists
      /\ \A k \in 1..Len(file.lines) :
            \E row \in WellFormedRows : file.lines[k] = JoinTab(row) )
    => /\ pc # "raised"
       /\ Len(students) = Len(file.lines)
       /\ \A k \in 1..Len(file.lines) :
             \E row \in WellFormedRows :
                /\ file.lines[k] = JoinTab(row)
                /\ C7_TrimmedLower(students[k].email, row[4])

C7_Witness ==
    /\ pc = "read"
    /\ Len(file.lines) = 2
    /\ file.lines[1] # file.lines[2]
    /\ Len(students) = 2
    /\ students[1].email = <<"b">>
    /\ students[2].email = <<"a">>

\* C8: between any two calls of fetch_submissions the delay is executed: a
\* call of fetch_submissions is followed by the sleep before anything else.
C8_DelayBetweenFetches ==
    /\ \A p, q \in 1..Len(calls) :
          (p < q /\ calls[p].op = "fetch_submissions"
                 /\ calls[q].op = "fetch_submissions")
          => \E r \in (p + 1)..(q - 1) : calls[r].op = "sleep"
    /\ \A p \in 1..(Len(calls) - 1) :
          calls[p].op = "fetch_submissions" => calls[p + 1].op = "sleep"
    /\ (calls # <<>> /\ calls[Len(calls)].op = "fetch_submissions") => pc = "sleep"

C8_Witness ==
    /\ Len(FetchCalls) = 2
    /\ FetchCalls[1].n = 0
    /\ FetchCalls[1].status = 500
    /\ pc = "sleep"

\* C9: the "LATE" line is never written: when the submissions of a matched
\* student are not empty, the line of the student is a submission URL with the
\* id of one of them.
C9_NeverLate ==
    /\ \A k \in 1..Len(stdout) : stdout[k].kind # "late"
    /\ \A c \in 1..Len(FetchCalls) :
          (FetchCalls[c].n > 0 /\ Len(stdout) >= FetchCalls[c].i) =>
             /\ stdout[FetchCalls[c].i].kind = "submission_url"
             /\ stdout[FetchCalls[c].i].s \in
                   {90 + k : k \in 1..FetchCalls[c].n}

C9_Witness ==
    /\ pc = "done"
    /\ Len(FetchCalls) = 1
    /\ FetchCalls[1].n = 2
    /\ submissions[1].created_at.wall = 1
    /\ submissions[2].created_at.wall = 2
    /\ stdout[FetchCalls[1].i].s = 92
    /\ stdout[FetchCalls[1].i].kind = "submission_url"

\* the roster entries with a directory email, in roster order
C10_MatchedEntries ==
    SelectSeq([k \in 1..Len(students) |-> k], LAMBDA k : InDirectory(k))

\* C10: fetch_users is called at most once and before any fetch_submissions;
\* fetch_submissions is called once for each roster entry whose email equals a
\* directory email character for character, in roster order and with the id
\* of the mapping; never for another entry, never in an aborted run.
C10_CallOrder ==
    /\ Cardinality({p \in 1..Len(calls) : calls[p].op = "fetch_users"}) <= 1
    /\ \A p \in 1..Len(calls) :
          calls[p].op = "fetch_submissions" =>
             \E q \in 1..(p - 1) : calls[q].op = "fetch_users"
    /\ Len(FetchCalls) <= Len(C10_MatchedEntries)
    /\ \A c \in 1..Len(FetchCalls) :
          /\ FetchCalls[c].i = C10_MatchedEntries[c]
          /\ FetchCalls[c].arg = user_dict[students[FetchCalls[c].i].email]
    /\ pc = "done" => Len(FetchCalls) = Len(C10_MatchedEntries)
    /\ pc \in {"aborted", "raised"} => FetchCalls = <<>>

C10_Witness ==
    /\ pc = "done"
    /\ Len(students) = 2
    /\ students[1].email = <<"a">>
    /\ students[2].email = <<"b">>
    /\ users = << [email |-> <<"A">>, id |-> 8], [email |-> <<"b">>, id |-> 9] >>
    /\ Len(FetchCalls) = 1
    /\ FetchCalls[1].arg = 9

====
